---- MODULE Spec2Model ----
(***************************************************************************)
(* The three scripts of IEXInsiderMCP (analyze_details.py,                 *)
(* analyze_excel.py, convert_to_csv.py) as one state machine.  A run is    *)
(* one invocation of one script against one file system: the workbook at   *)
(* the hard-coded input path and the CSV file at the hard-coded output     *)
(* path.  Every statement of a script is one action; pc is the source line *)
(* of the statement that runs next.  An uncaught exception ends the run    *)
(* (pc = "failed"), as the scripts hold no try/except.                     *)
(*                                                                         *)
(* A column label is a sequence of atoms.  An atom is either one           *)
(* whitespace character or a run of non-whitespace characters, which is    *)
(* all that str.strip() tells apart: 'IEX_Demand (GW)' is                  *)
(* <<"IEX_Demand", " ", "(GW)">>.                                          *)
(***************************************************************************)
EXTENDS Integers, Sequences, FiniteSets, TLC

VARIABLES
    script,     \* the script this run executes
    wb,         \* the workbook at the input path: [exists, sheets]
    destDir,    \* whether the parent directory of the output path exists
    csv0,       \* the file at the output path before the run: [exists, lines]
    csv,        \* the file at the output path now
    pc,         \* source line of the next statement, or "done" / "failed"
    df,         \* the script's df variable: <<>> unbound, <<T>> bound to T
    xl,         \* whether the workbook handle of pd.ExcelFile is open
    sheet_i,    \* analyze_excel.py: position of the for loop in xl.sheet_names
    stdout,     \* what has been printed, one record per print group
    err         \* the exception that ended the run, or "none"

vars == <<script, wb, destDir, csv0, csv, pc, df, xl, sheet_i, stdout, err>>

-----------------------------------------------------------------------------
(* Bounds of the enumerated inputs.                                        *)

MaxLabelLen == 3    \* atoms per generated column label
MaxRows == 3        \* rows of a generated market table
MaxSheets == 2      \* sheets of a generated workbook

-----------------------------------------------------------------------------
(* Values.                                                                 *)

WS == {" ", "\t"}
Atoms == {" ", "A"}

SeqsOf(S, lo, hi) == UNION {[1..k -> S] : k \in lo..hi}

Range(s) == {s[i] : i \in 1..Len(s)}

\* Cells as pandas materializes them: NaN/NaT, a number, a str, a Timestamp.
Null == [k |-> "null"]
Num(n) == [k |-> "num", n |-> n]
Str(s) == [k |-> "str", s |-> s]
Date(y, m, d) == [k |-> "date", y |-> y, m |-> m, d |-> d]

NoFile == [exists |-> FALSE, lines |-> <<>>]
File(lines) == [exists |-> TRUE, lines |-> lines]

Table(cols, rows) == [cols |-> cols, rows |-> rows]

\* The column labels the scripts look up.
TYPE == <<"TYPE">>
Year == <<"Year">>
DateCol == <<"Date">>
Time_Block == <<"Time_Block">>
IEX_Demand == <<"IEX_Demand", " ", "(GW)">>
IEX_Supply == <<"IEX_Supply", " ", "(GW)">>
MCP == <<"MCP", " ", "(Rs./kWh)">>
MCV == <<"MCV", " ", "(GW)">>

KeyColumns == <<TYPE, Year, DateCol, Time_Block, IEX_Demand, IEX_Supply, MCP, MCV>>

MCP_Details == "MCP Details"

-----------------------------------------------------------------------------
(* ColumnNormalizer: df.columns = df.columns.str.strip()                   *)

RECURSIVE LStrip(_)
LStrip(s) == IF s # <<>> /\ s[1] \in WS THEN LStrip(Tail(s)) ELSE s

RECURSIVE RStrip(_)
RStrip(s) ==
    IF s # <<>> /\ s[Len(s)] \in WS THEN RStrip(SubSeq(s, 1, Len(s) - 1)) ELSE s

\* A strip that forgets the right-hand side.
StripLeftOnly(s) == LStrip(s)

Strip(s) == RStrip(LStrip(s))

\* Only the labels are replaced; the rows are the same object.
StripColumns(T) == [T EXCEPT !.cols = [i \in 1..Len(T.cols) |-> Strip(T.cols[i])]]

-----------------------------------------------------------------------------
(* TableLoader: pd.read_excel(path, sheet_name=...) and pd.ExcelFile(path). *)

\* A lookup that folds case before it compares.
Lower(name) == IF name = "MCP Details" THEN "mcp details" ELSE name

FindSheetIgnoringCase(sheets, name) ==
    {i \in 1..Len(sheets) : Lower(sheets[i].name) = Lower(name)}

\* The positions of the sheets whose name is the requested name.  The
\* workbook's sheet index is looked up with the name as given.
FindSheet(sheets, name) == {i \in 1..Len(sheets) : sheets[i].name = name}

\* pd.ExcelFile(path): opening the container reads the sheet index only.
OpenWorkbook(w) ==
    IF w.exists THEN [err |-> "none", open |-> TRUE]
    ELSE [err |-> "NotFoundError", open |-> FALSE]

\* Parsing one sheet of an open workbook into a Table.
ParseSheet(sheets, name) ==
    LET hit == FindSheet(sheets, name) IN
    IF hit = {} THEN [err |-> "SheetNotFoundError", table |-> <<>>]
    ELSE LET sh == sheets[CHOOSE i \in hit : \A j \in hit : i <= j] IN
         IF sh.readable THEN [err |-> "none", table |-> <<sh.table>>]
         ELSE [err |-> "LoadError", table |-> <<>>]

\* pd.read_excel(path, sheet_name): opens the workbook itself, parses, and
\* closes what it opened in a finally clause, so no handle outlives the call.
ReadExcelPath(w, name) ==
    LET o == OpenWorkbook(w) IN
    IF o.err # "none" THEN [err |-> o.err, table |-> <<>>]
    ELSE ParseSheet(w.sheets, name)

-----------------------------------------------------------------------------
(* The enumerated inputs.                                                  *)

Labels == SeqsOf(Atoms, 1, MaxLabelLen)

\* read_excel hands out pairwise distinct labels (duplicates of the header
\* row are renamed at load), so the generated header rows are injective.
Injective(s) == \A i, j \in 1..Len(s) : s[i] = s[j] => i = j

LabelTables ==
    {Table(c, <<[i \in 1..Len(c) |-> Num(1)]>>) :
        c \in {h \in SeqsOf(Labels, 1, 2) : Injective(h)}}

EmptySheet == Table(<<>>, <<>>)

CellValues == {Null, Num(1), Str("A"), Str("2023-01-01"), Date(2023, 1, 1)}

CellTables ==
    {Table(<<<<"A">>>>, [i \in 1..Len(col) |-> <<col[i]>>]) :
        col \in SeqsOf(CellValues, 1, 2)}

TypeValues == {Null, Str("A"), Str("B"), Str("C")}

PaddedKeyColumns ==
    [KeyColumns EXCEPT ![1] = <<" ">> \o TYPE \o <<"\t">>, ![8] = MCV \o <<" ">>]

MarketRow(cols, t) ==
    SubSeq(<<t, Num(2023), Date(2023, 1, 1), Num(1), Num(5), Num(6), Num(3), Num(4)>>,
           1, Len(cols))

MarketTables ==
    {Table(c, [i \in 1..Len(ts) |-> MarketRow(c, ts[i])]) :
        c \in {KeyColumns, PaddedKeyColumns, <<TYPE>>},
        ts \in SeqsOf(TypeValues, 0, MaxRows)}

Tables == LabelTables \cup CellTables \cup MarketTables \cup {EmptySheet}

Sheet(n, t, r) == [name |-> n, table |-> t, readable |-> r]

SheetNames == {MCP_Details, "mcp details", "Sheet1"}

OneSheetBooks ==
    {<<Sheet(n, t, TRUE)>> : n \in {MCP_Details, "mcp details"}, t \in Tables}
    \cup {<<Sheet(MCP_Details, EmptySheet, FALSE)>>}

SmallSheets ==
    {Sheet(n, t, r) :
        n \in SheetNames,
        t \in {EmptySheet,
               Table(<<<<"A">>>>, <<<<Num(1)>>>>),
               Table(<<<<" ", "A">>, <<"A", " ">>>>, <<<<Num(1), Str("A")>>>>)},
        r \in BOOLEAN}

ManySheetBooks ==
    {b \in SeqsOf(SmallSheets, 2, MaxSheets) :
        \A i, j \in 1..Len(b) : b[i].name = b[j].name => i = j}

Workbooks ==
    {[exists |-> FALSE, sheets |-> <<>>]}
    \cup {[exists |-> TRUE, sheets |-> b] : b \in OneSheetBooks \cup ManySheetBooks}

OldArtifact == File(<<<<"old">>, <<"1">>>>)

Scripts == {"analyze_details", "analyze_excel", "convert_to_csv"}

Init ==
    /\ script \in Scripts
    /\ wb \in Workbooks
    /\ \E d \in {<<FALSE, NoFile>>, <<TRUE, NoFile>>, <<TRUE, OldArtifact>>} :
          /\ destDir = d[1]
          /\ csv0 = d[2]
          /\ csv = d[2]
    /\ pc = IF script = "analyze_details" THEN "L4" ELSE "L5"
    /\ df = <<>>
    /\ xl = FALSE
    /\ sheet_i = 0
    /\ stdout = <<>>
    /\ err = "none"

\* An uncaught exception: the traceback goes to stderr and the run ends.
Raise(e) == pc' = "failed" /\ err' = e

Say(rec) == stdout' = Append(stdout, rec)

-----------------------------------------------------------------------------
(* Column access and the pandas aggregates the scripts print.              *)

\* df[label]: the positions whose label is the requested one.
ColumnsNamed(T, label) == {j \in 1..Len(T.cols) : T.cols[j] = label}

HasColumn(T, label) == ColumnsNamed(T, label) # {}

Column(T, label) ==
    LET j == CHOOSE c \in ColumnsNamed(T, label) : \A d \in ColumnsNamed(T, label) : c <= d
    IN  [i \in 1..Len(T.rows) |-> T.rows[i][j]]

Count(col, v) == Cardinality({i \in 1..Len(col) : col[i] = v})

NullCount(col) == Count(col, Null)

Min(a, b) == IF a <= b THEN a ELSE b

\* Series.unique(): the distinct values in order of first appearance, NaN
\* included.
RECURSIVE Unique(_)
Unique(col) ==
    IF col = <<>> THEN <<>>
    ELSE LET front == Unique(SubSeq(col, 1, Len(col) - 1))
             last == col[Len(col)]
         IN  IF last \in Range(front) THEN front ELSE Append(front, last)

\* Series.value_counts(): NaN dropped, one entry per distinct value with its
\* count, sorted by count, largest first.  pandas sorts the counts with
\* sort_values(ascending=False) under the default kind 'quicksort', which is
\* not a stable sort, and documents nothing about equal counts: every
\* arrangement of the equal counts is an outcome a build can produce.
ValueCounts(col) ==
    LET vals == Range(col) \ {Null}
        n == Cardinality(vals)
        orders == {p \in [1..n -> vals] :
                     /\ \A i, j \in 1..n : p[i] = p[j] => i = j
                     /\ \A i, j \in 1..n : i < j => Count(col, p[i]) >= Count(col, p[j])}
    IN  {[i \in 1..n |-> [value |-> p[i], count |-> Count(col, p[i])]] : p \in orders}

\* rows per group of the sample report: .head(10)
SampleRows == 10

-----------------------------------------------------------------------------
(* TableExporter: df.to_csv(csv_file, index=False)                         *)

\* The text of a label: its atoms one after the other.
RECURSIVE Join(_)
Join(label) == IF label = <<>> THEN "" ELSE Head(label) \o Join(Tail(label))

\* The dtype pandas gives column j: datetime64 when every non-null cell is
\* a Timestamp, float64 when every non-null cell is a number and a cell is
\* missing, int64 when every cell is a number, object otherwise.
ColKind(T, j) ==
    LET cells == {T.rows[i][j] : i \in 1..Len(T.rows)}
        some == cells \ {Null}
    IN  IF some # {} /\ \A c \in some : c.k = "date" THEN "datetime64"
        ELSE IF some # {} /\ \A c \in some : c.k = "num"
             THEN IF Null \in cells THEN "float64" ELSE "int64"
        ELSE "object"

Pad2(n) == IF n < 10 THEN "0" \o ToString(n) ELSE ToString(n)

\* One field of the file.  NaN and NaT are written as the empty field
\* (na_rep=''); a str is written as it is; a number by its repr; a
\* Timestamp of a datetime64 column whose times are all midnight as its
\* date, and a Timestamp held in an object column by str(), with the time.
FormatCell(c, kind) ==
    CASE c.k = "null" -> ""
      [] c.k = "num" -> IF kind = "float64" THEN ToString(c.n) \o ".0" ELSE ToString(c.n)
      [] c.k = "str" -> c.s
      [] c.k = "date" ->
            LET day == ToString(c.y) \o "-" \o Pad2(c.m) \o "-" \o Pad2(c.d)
            IN  IF kind = "datetime64" THEN day ELSE day \o " 00:00:00"

\* The lines of the artifact, each the sequence of its fields: the header
\* line of labels, then one line per row.  index=False: no field for the
\* row position.
ToCsvLines(T) ==
    <<[j \in 1..Len(T.cols) |-> Join(T.cols[j])]>>
    \o [i \in 1..Len(T.rows) |->
          [j \in 1..Len(T.cols) |-> FormatCell(T.rows[i][j], ColKind(T, j))]]

\* An open that first creates the missing parent directories.
OpenForWriteMakingDirs(dirExists, old) == [err |-> "none", file |-> File(<<>>)]

\* open(csv_file, 'w'): fails when the parent directory is missing and
\* leaves the path as it was; otherwise creates the file or truncates it.
OpenForWrite(dirExists, old) ==
    IF dirExists THEN [err |-> "none", file |-> File(<<>>)]
    ELSE [err |-> "WriteError", file |-> old]

-----------------------------------------------------------------------------
(* convert_to_csv.py                                                       *)

\* line 5: df = pd.read_excel(excel_file, sheet_name='MCP Details')
CSV_ReadExcel ==
    /\ script = "convert_to_csv" /\ pc = "L5"
    /\ LET r == ReadExcelPath(wb, MCP_Details) IN
       IF r.err # "none"
       THEN Raise(r.err) /\ UNCHANGED df
       ELSE df' = r.table /\ pc' = "L8" /\ UNCHANGED err
    /\ UNCHANGED <<script, wb, destDir, csv0, csv, xl, sheet_i, stdout>>

\* line 8: df.columns = df.columns.str.strip()
CSV_Strip ==
    /\ script = "convert_to_csv" /\ pc = "L8"
    /\ df' = <<StripColumns(df[1])>>
    /\ pc' = "L12"
    /\ UNCHANGED <<script, wb, destDir, csv0, csv, xl, sheet_i, stdout, err>>

\* line 12: df.to_csv(csv_file, index=False).  The file is opened for
\* writing at the destination path itself and the lines are written into
\* it; a write that fails (disk full, I/O error) after k lines leaves those
\* k lines in the file.
CSV_ToCsv ==
    /\ script = "convert_to_csv" /\ pc = "L12"
    /\ LET o == OpenForWrite(destDir, csv)
           full == ToCsvLines(df[1])
       IN  \/ /\ o.err # "none"
              /\ csv' = o.file
              /\ Raise(o.err)
           \/ /\ o.err = "none"
              /\ \E k \in 0..(Len(full) - 1) : csv' = File(SubSeq(full, 1, k))
              /\ Raise("WriteError")
           \/ /\ o.err = "none"
              /\ csv' = File(full)
              /\ pc' = "L14"
              /\ UNCHANGED err
    /\ UNCHANGED <<script, wb, destDir, csv0, df, xl, sheet_i, stdout>>

\* lines 14-16: the three success messages
CSV_PrintSuccess ==
    /\ script = "convert_to_csv" /\ pc = "L14"
    /\ Say([line |-> 14, rows |-> Len(df[1].rows), cols |-> df[1].cols])
    /\ pc' = "done"
    /\ UNCHANGED <<script, wb, destDir, csv0, csv, df, xl, sheet_i, err>>

-----------------------------------------------------------------------------
(* analyze_details.py                                                      *)

MissingKeyColumns(T) == {j \in 1..Len(KeyColumns) : ~HasColumn(T, KeyColumns[j])}

\* line 4: df = pd.read_excel(path, sheet_name='MCP Details')
AD_ReadExcel ==
    /\ script = "analyze_details" /\ pc = "L4"
    /\ LET r == ReadExcelPath(wb, MCP_Details) IN
       IF r.err # "none"
       THEN Raise(r.err) /\ UNCHANGED df
       ELSE df' = r.table /\ pc' = "L7" /\ UNCHANGED err
    /\ UNCHANGED <<script, wb, destDir, csv0, csv, xl, sheet_i, stdout>>

\* line 7: df.columns = df.columns.str.strip()
AD_Strip ==
    /\ script = "analyze_details" /\ pc = "L7"
    /\ df' = <<StripColumns(df[1])>>
    /\ pc' = "L9"
    /\ UNCHANGED <<script, wb, destDir, csv0, csv, xl, sheet_i, stdout, err>>

\* lines 9-10: print('Cleaned Columns:', list(df.columns))
AD_PrintColumns ==
    /\ script = "analyze_details" /\ pc = "L9"
    /\ Say([line |-> 9, cols |-> df[1].cols])
    /\ pc' = "L13"
    /\ UNCHANGED <<script, wb, destDir, csv0, csv, df, xl, sheet_i, err>>

\* lines 13-15: print('TYPE values:'), then print(df['TYPE'].value_counts()).
\* The heading is printed before the column is looked up.
AD_ValueCounts ==
    /\ script = "analyze_details" /\ pc = "L13"
    /\ IF ~HasColumn(df[1], TYPE)
       THEN /\ Say([line |-> 13])
            /\ Raise("ColumnNotFoundError")
       ELSE /\ \E vc \in ValueCounts(Column(df[1], TYPE)) :
                 stdout' = stdout \o <<[line |-> 13], [line |-> 14, counts |-> vc]>>
            /\ pc' = "L18"
            /\ UNCHANGED err
    /\ UNCHANGED <<script, wb, destDir, csv0, csv, df, xl, sheet_i>>

\* lines 18-22: one sample of up to ten rows per value of TYPE, in the
\* order of df['TYPE'].unique().  Each pass prints its heading, then selects
\* the eight columns, which raises when one is absent.
AD_Samples ==
    /\ script = "analyze_details" /\ pc = "L18"
    /\ LET col == Column(df[1], TYPE)
           groups == Unique(col)
       IN  IF groups # <<>> /\ MissingKeyColumns(df[1]) # {}
           THEN /\ Say([line |-> 19, group |-> groups[1]])
                /\ Raise("ColumnNotFoundError")
           ELSE /\ stdout' = stdout \o
                      [g \in 1..Len(groups) |->
                          [line |-> 19, group |-> groups[g],
                           rows |-> IF groups[g] = Null THEN 0
                                    ELSE Min(Count(col, groups[g]), SampleRows)]]
                /\ pc' = "L25"
                /\ UNCHANGED err
    /\ UNCHANGED <<script, wb, destDir, csv0, csv, df, xl, sheet_i>>

\* lines 25-27: date range, total records, years
AD_DateRange ==
    /\ script = "analyze_details" /\ pc = "L25"
    /\ IF ~HasColumn(df[1], DateCol)
       THEN Raise("ColumnNotFoundError") /\ UNCHANGED stdout
       ELSE IF ~HasColumn(df[1], Year)
       THEN /\ Say([line |-> 25, records |-> Len(df[1].rows)])
            /\ Raise("ColumnNotFoundError")
       ELSE /\ Say([line |-> 25, records |-> Len(df[1].rows)])
            /\ pc' = "L30"
            /\ UNCHANGED err
    /\ UNCHANGED <<script, wb, destDir, csv0, csv, df, xl, sheet_i>>

\* lines 30-31: null counts of the eight key columns, after the heading
AD_Nulls ==
    /\ script = "analyze_details" /\ pc = "L30"
    /\ IF MissingKeyColumns(df[1]) # {}
       THEN /\ Say([line |-> 30])
            /\ Raise("ColumnNotFoundError")
       ELSE /\ stdout' = stdout \o
                  <<[line |-> 30],
                    [line |-> 31,
                     nulls |-> [j \in 1..Len(KeyColumns) |->
                                  NullCount(Column(df[1], KeyColumns[j]))]]>>
            /\ pc' = "L34"
            /\ UNCHANGED err
    /\ UNCHANGED <<script, wb, destDir, csv0, csv, df, xl, sheet_i>>

\* lines 34-35: print(df['MCP (Rs./kWh)'].describe()), after the heading
AD_PriceStats ==
    /\ script = "analyze_details" /\ pc = "L34"
    /\ IF ~HasColumn(df[1], MCP)
       THEN /\ Say([line |-> 34])
            /\ Raise("ColumnNotFoundError")
       ELSE /\ stdout' = stdout \o
                  <<[line |-> 34],
                    [line |-> 35,
                     count |-> Len(df[1].rows) - NullCount(Column(df[1], MCP))]>>
            /\ pc' = "L37"
            /\ UNCHANGED err
    /\ UNCHANGED <<script, wb, destDir, csv0, csv, df, xl, sheet_i>>

\* lines 37-38: print(df['MCV (GW)'].describe()), after the heading
AD_VolumeStats ==
    /\ script = "analyze_details" /\ pc = "L37"
    /\ IF ~HasColumn(df[1], MCV)
       THEN /\ Say([line |-> 37])
            /\ Raise("ColumnNotFoundError")
       ELSE /\ stdout' = stdout \o
                  <<[line |-> 37],
                    [line |-> 38,
                     count |-> Len(df[1].rows) - NullCount(Column(df[1], MCV))]>>
            /\ pc' = "done"
            /\ UNCHANGED err
    /\ UNCHANGED <<script, wb, destDir, csv0, csv, df, xl, sheet_i>>

-----------------------------------------------------------------------------
(* analyze_excel.py                                                        *)

\* line 5: xl = pd.ExcelFile(path).  The handle stays with xl; the script
\* holds no close() and no with block.
AE_ExcelFile ==
    /\ script = "analyze_excel" /\ pc = "L5"
    /\ LET o == OpenWorkbook(wb) IN
       IF o.err # "none"
       THEN Raise(o.err) /\ UNCHANGED xl
       ELSE xl' = o.open /\ pc' = "L6" /\ UNCHANGED err
    /\ UNCHANGED <<script, wb, destDir, csv0, csv, df, sheet_i, stdout>>

\* lines 6-7: print('Sheet names:', xl.sheet_names)
AE_PrintSheetNames ==
    /\ script = "analyze_excel" /\ pc = "L6"
    /\ Say([line |-> 6, names |-> [i \in 1..Len(wb.sheets) |-> wb.sheets[i].name]])
    /\ pc' = "L10"
    /\ UNCHANGED <<script, wb, destDir, csv0, csv, df, xl, sheet_i, err>>

\* line 10: for sheet_name in xl.sheet_names
AE_For ==
    /\ script = "analyze_excel" /\ pc = "L10"
    /\ IF sheet_i < Len(wb.sheets)
       THEN sheet_i' = sheet_i + 1 /\ pc' = "L11"
       ELSE sheet_i' = sheet_i /\ pc' = "done"
    /\ UNCHANGED <<script, wb, destDir, csv0, csv, df, xl, stdout, err>>

\* lines 11-13: the sheet's heading, then df = pd.read_excel(xl, sheet_name).
\* read_excel is handed the open ExcelFile and so neither opens nor closes
\* a handle.
AE_ReadSheet ==
    /\ script = "analyze_excel" /\ pc = "L11"
    /\ Say([line |-> 11, sheet |-> wb.sheets[sheet_i].name])
    /\ LET r == ParseSheet(wb.sheets, wb.sheets[sheet_i].name) IN
       IF r.err # "none"
       THEN Raise(r.err) /\ UNCHANGED df
       ELSE df' = r.table /\ pc' = "L15" /\ UNCHANGED err
    /\ UNCHANGED <<script, wb, destDir, csv0, csv, xl, sheet_i>>

\* lines 15-26: columns, shape, dtypes, first rows, unique counts
AE_Report ==
    /\ script = "analyze_excel" /\ pc = "L15"
    /\ Say([line |-> 15, cols |-> df[1].cols,
            shape |-> <<Len(df[1].rows), Len(df[1].cols)>>])
    /\ pc' = "L28"
    /\ UNCHANGED <<script, wb, destDir, csv0, csv, df, xl, sheet_i, err>>

\* lines 28-31: print(df.describe()) after its heading, then the rule.
\* DataFrame.describe() raises ValueError for a frame without columns.
AE_Describe ==
    /\ script = "analyze_excel" /\ pc = "L28"
    /\ IF df[1].cols = <<>>
       THEN /\ Say([line |-> 28])
            /\ Raise("ValueError")
       ELSE /\ stdout' = stdout \o <<[line |-> 28], [line |-> 29, cols |-> df[1].cols]>>
            /\ pc' = "L10"
            /\ UNCHANGED err
    /\ UNCHANGED <<script, wb, destDir, csv0, csv, df, xl, sheet_i>>

-----------------------------------------------------------------------------

Next ==
    \/ CSV_ReadExcel
    \/ CSV_Strip
    \/ CSV_ToCsv
    \/ CSV_PrintSuccess
    \/ AD_ReadExcel
    \/ AD_Strip
    \/ AD_PrintColumns
    \/ AD_ValueCounts
    \/ AD_Samples
    \/ AD_DateRange
    \/ AD_Nulls
    \/ AD_PriceStats
    \/ AD_VolumeStats
    \/ AE_ExcelFile
    \/ AE_PrintSheetNames
    \/ AE_For
    \/ AE_ReadSheet
    \/ AE_Report
    \/ AE_Describe

Spec == Init /\ [][Next]_vars

-----------------------------------------------------------------------------
(* Properties.                                                             *)

SheetNamesOf(w) == {w.sheets[i].name : i \in 1..Len(w.sheets)}

\* The Table the two single-sheet scripts load, before its labels are cleaned.
Loaded == ReadExcelPath(wb, MCP_Details).table[1]

\* df is bound and the strip of line 7 / line 8 has run on it.
Normalized ==
    /\ script \in {"analyze_details", "convert_to_csv"}
    /\ df # <<>>
    /\ pc \notin {"L7", "L8"}

Trimmed(label) == label = <<>> \/ (label[1] \notin WS /\ label[Len(label)] \notin WS)

\* s is r without a run of whitespace at its start and one at its end,
\* and nothing else removed or changed.
IsStripOf(s, r) ==
    /\ Trimmed(s)
    /\ \E a, b \in 0..Len(r) :
          /\ a + b <= Len(r)
          /\ s = SubSeq(r, a + 1, Len(r) - b)
          /\ \A i \in 1..a : r[i] \in WS
          /\ \A i \in (Len(r) - b + 1)..Len(r) : r[i] \in WS

\* C1: an export run that fails, at whatever point, leaves at the
\* destination path either the complete artifact or exactly what the path
\* held before the run: never a header-only or partly written file.
C1_ExportAtomicOnFailure ==
    (script = "convert_to_csv" /\ pc = "failed") =>
        \/ csv = csv0
        \/ df # <<>> /\ csv = File(ToCsvLines(df[1]))

\* C2: an export to a destination whose parent directory does not exist
\* fails with WriteError; no file exists at the destination afterwards and
\* the success message has not been printed.
C2_MissingDirectoryFails ==
    (script = "convert_to_csv" /\ ~destDir) =>
        /\ ~csv.exists
        /\ stdout = <<>>
        /\ pc \notin {"L14", "done"}
        /\ (pc = "failed" /\ df # <<>>) => err = "WriteError"

C2_Witness ==
    /\ script = "convert_to_csv" /\ ~destDir
    /\ pc = "failed" /\ err = "WriteError"
    /\ df # <<>> /\ df[1].rows # <<>>
    /\ ~csv.exists

\* C3: in a run in which an error occurs, nothing of the report has been
\* written to standard output when the run fails.
C3_NoPartialReport == err # "none" => stdout = <<>>

\* C4: the workbook handle is held only while one sheet is read: it is not
\* held while a summary is reported, while another sheet is loaded, or
\* once the script has ended.
C4_HandleScopedToOneRead ==
    xl => /\ pc \notin {"L15", "L28", "done", "failed"}
          /\ ~(pc = "L11" /\ sheet_i > 1)

\* C5: after ColumnNormalizer has run, the column labels of the Table are
\* pairwise distinct.
C5_LabelsDistinctAfterStrip == Normalized => Injective(df[1].cols)

\* C6: ColumnNormalizer is idempotent and value-preserving: normalizing the
\* normalized Table again changes nothing, each label is the source label
\* with only its leading and trailing whitespace removed, and the column
\* order and the cell values are those of the loaded Table.
C6_StripIdempotentValuePreserving ==
    Normalized =>
        /\ StripColumns(df[1]) = df[1]
        /\ Len(df[1].cols) = Len(Loaded.cols)
        /\ \A j \in 1..Len(df[1].cols) : IsStripOf(df[1].cols[j], Loaded.cols[j])
        /\ df[1].rows = Loaded.rows

C6_Witness ==
    /\ Normalized
    /\ df[1].rows # <<>>
    /\ \E j \in 1..Len(df[1].cols) :
          /\ Len(Loaded.cols[j]) = Len(df[1].cols[j]) + 2
          /\ Loaded.cols[j][1] \in WS
    /\ \E j \in 1..Len(df[1].cols) :
          /\ df[1].cols[j] # Loaded.cols[j]
          /\ \E i \in 2..(Len(df[1].cols[j]) - 1) : df[1].cols[j][i] \in WS

\* C7: export round trip.  Re-loading the artifact yields the exported
\* Table: same labels in the same order, same rows, equal cells, a text cell
\* still text.  A re-load reads nothing but the artifact, so this holds of
\* every Table only if the artifact determines the Table: a Table whose
\* export is the very lines now in the file is the Table that was exported.
C7_ExportRoundTrip ==
    (script = "convert_to_csv" /\ pc \in {"L14", "done"}) =>
        \A T \in Tables :
            ToCsvLines(StripColumns(T)) = csv.lines => StripColumns(T) = df[1]

\* C8: the sheet is selected by its exact, case-sensitive name: against a
\* workbook whose sheet list does not hold "MCP Details" the load fails with
\* SheetNotFoundError, and no Table, report or export artifact is produced.
C8_ExactSheetName ==
    (/\ script \in {"analyze_details", "convert_to_csv"}
     /\ wb.exists
     /\ MCP_Details \notin SheetNamesOf(wb)) =>
        \/ pc \in {"L4", "L5"}
        \/ /\ pc = "failed"
           /\ err = "SheetNotFoundError"
           /\ df = <<>>
           /\ stdout = <<>>
           /\ csv = csv0

C8_Witness ==
    /\ script \in {"analyze_details", "convert_to_csv"}
    /\ wb.exists
    /\ "mcp details" \in SheetNamesOf(wb)
    /\ MCP_Details \notin SheetNamesOf(wb)
    /\ pc = "failed"
    /\ err = "SheetNotFoundError"

FirstIndex(col, v) == CHOOSE i \in 1..Len(col) : col[i] = v /\ \A j \in 1..(i - 1) : col[j] # v

\* C9: the frequency table gives each distinct non-null value its exact
\* count, in descending order of count, values of equal count in the order
\* of their first occurrence in the column.
C9_ValueCountsTiesFirstSeen ==
    (script = "analyze_details" /\ df # <<>>) =>
        \A k \in 1..Len(stdout) :
            stdout[k].line = 14 =>
                LET vc == stdout[k].counts
                    col == Column(df[1], TYPE)
                IN  /\ {vc[i].value : i \in 1..Len(vc)} = Range(col) \ {Null}
                    /\ \A i \in 1..Len(vc) : vc[i].count = Count(col, vc[i].value)
                    /\ \A i, j \in 1..Len(vc) :
                          i < j =>
                            \/ vc[i].count > vc[j].count
                            \/ /\ vc[i].count = vc[j].count
                               /\ FirstIndex(col, vc[i].value) < FirstIndex(col, vc[j].value)

\* C10: every Table passes through ColumnNormalizer before it is reported
\* or exported: every column listing, summary and export, of any of the
\* three scripts, is made from labels that have been whitespace-trimmed.
C10_NormalizedBeforeUse ==
    /\ \A k \in 1..Len(stdout) :
          "cols" \in DOMAIN stdout[k] =>
              \A j \in 1..Len(stdout[k].cols) : Trimmed(stdout[k].cols[j])
    /\ (script = "convert_to_csv" /\ pc \in {"L14", "done"}) =>
          \A j \in 1..Len(df[1].cols) : Trimmed(df[1].cols[j])

====
